---- MODULE Spec2Model ----
(***************************************************************************)
(* Model of BitcoinBlockchainManager (coins/bitcoin/blockchain.js):        *)
(* refreshAddress (address rotation), fetchAddressDetails and              *)
(* sendFromOneAddress (transaction build, sign and broadcast).             *)
(*                                                                         *)
(* Every call is one pipeline.  JavaScript runs a call without             *)
(* interruption between two awaits, so an action is the code from one      *)
(* await to the next; the provider's answer is the action's input.         *)
(* Money is a number of satoshis; a "float" amount is the record           *)
(* [unit |-> "BTC", e8 |-> n], the decimal n * 10^-8.                      *)
(***************************************************************************)
EXTENDS Integers, Sequences, FiniteSets, TLC

VARIABLES
    pc,             \* per call: where the call is suspended
    op,             \* per call: the public method the caller invoked
    wallet,         \* per call: the wallet record the caller holds
    addressParam,   \* per call: the address record the caller holds
    details,        \* per call: what fetchAddressDetails returned
    newAddressData, \* per call: what generateAddressFromSeed returned
    sendArgs,       \* per call: the arguments of sendFromOneAddress
    sendLocals,     \* per call: outputs, satoshisToSend, unspentOutputs, inputs, remainingSatoshis
    tx,             \* per call: the bitcoin.TransactionBuilder draft
    sendResult,     \* per call: what sendFromOneAddress settled with
    refreshResult,  \* per call: what refreshAddress settled with
    trace           \* per call: the provider and library calls made, in order

vars == <<pc, op, wallet, addressParam, details, newAddressData, sendArgs,
          sendLocals, tx, sendResult, refreshResult, trace>>

----------------------------------------------------------------------------
(* Bounds of the model *)

NumCalls == 2          \* pipelines the model holds
MaxIndex == 3          \* the caller stops rotating a wallet at this address index
MaxBalance == 5        \* balances the provider reports: 0..MaxBalance
MaxUtxos == 2          \* unspent outputs the provider lists for an address
MaxValue == 3          \* value of one unspent output: 0..MaxValue
MaxPayments == 2       \* payments of a direct sendFromOneAddress call
MaxTxInputs == 2       \* inputs of one transaction of an address's history
MaxTxOutputs == 2      \* outputs of one transaction of an address's history

(* Program constants, scaled down (coins/bitcoin/constants) *)

DEFAULT_FEE == 2
DUST_THRESHOLD == 1

Calls == 1 .. NumCalls

ACCOUNT_BASE == "ACCOUNT_BASE"
EXTERNAL == "EXTERNAL"
API_ERROR == "API_ERROR"
INSUFFICIENT_FUNDS == "INSUFFICIENT_FUNDS"
BROADCAST_ERROR == "BROADCAST_ERROR"
MALFORMED_KEY == <<"key", "malformed">>

----------------------------------------------------------------------------
(* Values *)

None == [kind |-> "none"]

\* a promise rejected with the raw exception `reason`
Thrown(reason) == [kind |-> "thrown", reason |-> reason]

asErrorObject(message) == [kind |-> "error", error |-> TRUE, message |-> message]

VIEW_TX(txid) == <<"VIEW_TX", txid>>

satoshiToFloat(satoshis) == [unit |-> "BTC", e8 |-> satoshis]

floatToSatoshi(float) == float.e8

RECURSIVE SumValues(_)
SumValues(utxos) ==
    IF utxos = << >> THEN 0 ELSE Head(utxos).value + SumValues(Tail(utxos))

RECURSIVE SumSatoshis(_)
SumSatoshis(outputs) ==
    IF outputs = << >> THEN 0 ELSE Head(outputs).satoshis + SumSatoshis(Tail(outputs))

CountCalls(log, name) == Cardinality({i \in DOMAIN log : log[i].call = name})

NoCall(log, name) == \A i \in DOMAIN log : log[i].call # name

CountRoute(log, route) ==
    Cardinality({i \in DOMAIN log : log[i].call \in {"api.get", "api.post"} /\ log[i].route = route})

----------------------------------------------------------------------------
(* KeyDeriver *)

generateAddressFromSeed_noIncrement(mnemonicSeed, account, changeChain, numberOfAddresses) ==
    [kind |-> "address",
     address |-> <<"addr", mnemonicSeed, account, changeChain, numberOfAddresses>>,
     index |-> numberOfAddresses,
     privateKey |-> <<"key", mnemonicSeed, account, changeChain, numberOfAddresses>>]

\* lines 80-93
generateAddressFromSeed(mnemonicSeed, account, changeChain, numberOfAddresses) ==
    LET addressIncrement == numberOfAddresses + 1
    IN  [kind |-> "address",
         address |-> <<"addr", mnemonicSeed, account, changeChain, addressIncrement>>,
         index |-> addressIncrement,
         privateKey |-> <<"key", mnemonicSeed, account, changeChain, addressIncrement>>]

\* ECPair.fromPrivateKey: throws on a malformed key
ValidKey(privateKey) == privateKey # MALFORMED_KEY

ECPair(privateKey) == [privateKey |-> privateKey]

----------------------------------------------------------------------------
(* coins/bitcoin/utils *)

getOutputs(paymentData) ==
    [i \in 1 .. Len(paymentData) |->
        [address |-> paymentData[i].address,
         satoshis |-> floatToSatoshi(paymentData[i].amount)]]

getSatoshisToSend(outputs, fee) == SumSatoshis(outputs) + fee

RECURSIVE Accumulate(_, _, _, _)
Accumulate(unspentOutputs, satoshisToSend, inputs, accumulated) ==
    IF unspentOutputs = << >> \/ accumulated >= satoshisToSend
    THEN [inputs |-> inputs, remainingSatoshis |-> accumulated - satoshisToSend]
    ELSE Accumulate(Tail(unspentOutputs), satoshisToSend,
                    Append(inputs, Head(unspentOutputs)),
                    accumulated + Head(unspentOutputs).value)

getInputs_all(unspentOutputs, satoshisToSend) ==
    [inputs |-> unspentOutputs,
     remainingSatoshis |-> SumValues(unspentOutputs) - satoshisToSend]

getInputs(unspentOutputs, satoshisToSend) ==
    Accumulate(unspentOutputs, satoshisToSend, << >>, 0)

----------------------------------------------------------------------------
(* What the provider and the caller can supply *)

BalanceReplies ==
    {[ok |-> FALSE, balance |-> 0]} \cup {[ok |-> TRUE, balance |-> b] : b \in 0 .. MaxBalance}

UtxoLists ==
    UNION {{[i \in 1 .. n |-> [txid |-> i, vout |-> 0, value |-> f[i]]] :
               f \in [1 .. n -> 0 .. MaxValue]} : n \in 0 .. MaxUtxos}

UnspentReplies ==
    {[ok |-> FALSE, data |-> << >>]} \cup {[ok |-> TRUE, data |-> u] : u \in UtxoLists}

\* api.post throws on a network or non-2xx answer; otherwise the answer has a
\* 2xx status and may or may not carry a txid
SendTxReplies ==
    {[ok |-> FALSE, status |-> 0, txid |-> "undefined"]}
    \cup {[ok |-> TRUE, status |-> s, txid |-> t] : s \in {200, 201}, t \in {"txid", "undefined"}}

\* a payment of nothing or of one satoshi
Amounts == {satoshiToFloat(0), satoshiToFloat(1)}

PaymentLists ==
    UNION {{[i \in 1 .. n |-> [address |-> <<"dest", i>>, amount |-> f[i]]] :
               f \in [1 .. n -> Amounts]} : n \in 1 .. MaxPayments}

\* the fee argument left out, or an explicit fee of nothing
Fees == {DEFAULT_FEE, 0}

----------------------------------------------------------------------------
(* sendFromOneAddress, piece by piece *)

NoLocals ==
    [stage |-> "none", outputs |-> << >>, satoshisToSend |-> 0,
     unspentOutputs |-> << >>, inputs |-> << >>, remainingSatoshis |-> 0]

EmptyTx == [ins |-> << >>, outs |-> << >>, sigs |-> << >>]

InsufficientBalance_offByOne(remainingSatoshis) == remainingSatoshis < -1

\* line 228
InsufficientBalance(remainingSatoshis) == remainingSatoshis < 0

WithChange_never(outputs, fromAddress, remainingSatoshis) == outputs

WithChange_atThreshold(outputs, fromAddress, remainingSatoshis) ==
    IF remainingSatoshis # 0 /\ remainingSatoshis >= DUST_THRESHOLD
    THEN Append(outputs, [address |-> fromAddress, satoshis |-> remainingSatoshis])
    ELSE outputs

\* lines 233-238
WithChange(outputs, fromAddress, remainingSatoshis) ==
    IF remainingSatoshis # 0 /\ remainingSatoshis > DUST_THRESHOLD
    THEN Append(outputs, [address |-> fromAddress, satoshis |-> remainingSatoshis])
    ELSE outputs

Draft_shared(inputs, outputs, keyPair) ==
    LET earlier == IF \E q \in Calls : tx[q] # EmptyTx
                   THEN tx[CHOOSE q \in Calls : tx[q] # EmptyTx]
                   ELSE EmptyTx
        n == Len(earlier.ins)
    IN  [ins |-> earlier.ins
                 \o [i \in 1 .. Len(inputs) |-> [txid |-> inputs[i].txid, vout |-> inputs[i].vout]],
         outs |-> earlier.outs \o outputs,
         sigs |-> earlier.sigs
                  \o [i \in 1 .. Len(inputs) |-> [vin |-> n + i - 1, keyPair |-> keyPair]]]

\* lines 242-254: inputs, then outputs, then one signature per input
Draft(inputs, outputs, keyPair) ==
    [ins |-> [i \in 1 .. Len(inputs) |-> [txid |-> inputs[i].txid, vout |-> inputs[i].vout]],
     outs |-> outputs,
     sigs |-> [i \in 1 .. Len(inputs) |-> [vin |-> i - 1, keyPair |-> keyPair]]]

DraftTrace_signEarly(inputs, outputs, keyPair) ==
    [i \in 1 .. Len(inputs) |->
        [call |-> "tx.addInput", txid |-> inputs[i].txid, vout |-> inputs[i].vout]]
    \o [i \in 1 .. Len(inputs) |-> [call |-> "tx.sign", vin |-> i - 1, keyPair |-> keyPair]]
    \o [i \in 1 .. Len(outputs) |->
        [call |-> "tx.addOutput", address |-> outputs[i].address, satoshis |-> outputs[i].satoshis]]
    \o <<[call |-> "tx.build"]>>

\* lines 242-256: the calls on the draft, in the order the code makes them
DraftTrace(inputs, outputs, keyPair) ==
    [i \in 1 .. Len(inputs) |->
        [call |-> "tx.addInput", txid |-> inputs[i].txid, vout |-> inputs[i].vout]]
    \o [i \in 1 .. Len(outputs) |->
        [call |-> "tx.addOutput", address |-> outputs[i].address, satoshis |-> outputs[i].satoshis]]
    \o [i \in 1 .. Len(inputs) |-> [call |-> "tx.sign", vin |-> i - 1, keyPair |-> keyPair]]
    \o <<[call |-> "tx.build"]>>

Buildable_unlessInFlight(draft) ==
    /\ draft.ins # << >>
    /\ draft.outs # << >>
    /\ ~\E q \in Calls : pc[q] = "post" /\ tx[q].ins = draft.ins

\* tx.build() of bitcoinjs-lib refuses a draft with no inputs or no outputs
Buildable(draft) == draft.ins # << >> /\ draft.outs # << >>

toHex(draft) == [rawtx |-> draft]

\* what an awaited provider request resumed with
Response(route, res) == [call |-> "response", route |-> route, ok |-> res.ok, res |-> res]

UnspentFetchFailed_swallowed(res) == FALSE

\* lines 218-222: the catch around the unspent-outputs request
UnspentFetchFailed(res) == ~res.ok

\* lines 259-263: the catch around the broadcast request
SendTxFailed(res) == ~res.ok

\* lines 265-274
BroadcastResult(res) ==
    IF res.status = 200
    THEN [kind |-> "sent", error |-> FALSE, link |-> VIEW_TX(res.txid)]
    ELSE asErrorObject(BROADCAST_ERROR)

----------------------------------------------------------------------------
(* refreshAddress, piece by piece *)

BelowSweepThreshold_strict(balance) == balance > 0 /\ balance < DEFAULT_FEE

\* line 106
BelowSweepThreshold(balance) == balance > 0 /\ balance <= DEFAULT_FEE

SweepNeeded_always(balance) == TRUE

\* line 116
SweepNeeded(balance) == balance # 0

\* lines 103-111
SameAddress(w, a) ==
    [kind |-> "address", address |-> a.address, privateKey |-> a.private_key,
     index |-> w.address_index]

\* lines 127-131
NewAddress(nad) ==
    [kind |-> "address", address |-> nad.address, index |-> nad.index,
     privateKey |-> nad.privateKey]

SweepArgs_keepsOne(a, nad, balance) ==
    [kind |-> "args", fromAddress |-> a.address, privateKey |-> a.private_key,
     paymentData |-> <<[address |-> nad.address,
                        amount |-> satoshiToFloat(balance - DEFAULT_FEE - 1)]>>,
     fee |-> DEFAULT_FEE]

SweepArgs_fullBalance(a, nad, balance) ==
    [kind |-> "args", fromAddress |-> a.address, privateKey |-> a.private_key,
     paymentData |-> <<[address |-> nad.address, amount |-> satoshiToFloat(balance)]>>,
     fee |-> DEFAULT_FEE]

\* lines 117-124; the fee is the default of line 205
SweepArgs(a, nad, balance) ==
    [kind |-> "args", fromAddress |-> a.address, privateKey |-> a.private_key,
     paymentData |-> <<[address |-> nad.address,
                        amount |-> satoshiToFloat(balance - DEFAULT_FEE)]>>,
     fee |-> DEFAULT_FEE]

\* lines 117-131: the awaited value of sendFromOneAddress is dropped; only a
\* rejection of it ends refreshAddress early
AfterSweep(sres, nad) == IF sres.kind = "thrown" THEN sres ELSE NewAddress(nad)

----------------------------------------------------------------------------
(* The pipelines *)

Seed(p) == <<"seed", p>>

\* the address record the persistence layer keeps for index i of call p's wallet
AddressAt(p, i) ==
    LET derived == generateAddressFromSeed(Seed(p), ACCOUNT_BASE, EXTERNAL, i - 1)
    IN  [address |-> derived.address, private_key |-> derived.privateKey]

Wallets(p) == {[seed |-> Seed(p), address_index |-> i] : i \in 1 .. 2}

Init ==
    /\ pc = [p \in Calls |-> IF p = 1 THEN "idle" ELSE "off"]
    /\ op = [p \in Calls |-> "none"]
    /\ wallet \in {w \in [Calls -> UNION {Wallets(p) : p \in Calls}] :
                     \A p \in Calls : w[p] \in Wallets(p) /\ (p # 1 => w[p].address_index = 1)}
    /\ addressParam \in {a \in [Calls -> UNION {{AddressAt(p, i) : i \in 1 .. 2} : p \in Calls}] :
                     \A p \in Calls : \E i \in 1 .. wallet[p].address_index : a[p] = AddressAt(p, i)}
    /\ details = [p \in Calls |-> None]
    /\ newAddressData = [p \in Calls |-> None]
    /\ sendArgs = [p \in Calls |-> None]
    /\ sendLocals = [p \in Calls |-> NoLocals]
    /\ tx = [p \in Calls |-> EmptyTx]
    /\ sendResult = [p \in Calls |-> None]
    /\ refreshResult = [p \in Calls |-> None]
    /\ trace = [p \in Calls |-> << >>]

\* a call settles: sendFromOneAddress with sres, and refreshAddress, when it
\* is the caller of sendFromOneAddress, with what lines 117-131 make of it
Settle(p, method, sres, nad) ==
    /\ sendResult' = [sendResult EXCEPT ![p] = sres]
    /\ refreshResult' = [refreshResult EXCEPT
                            ![p] = IF method = "refreshAddress" THEN AfterSweep(sres, nad) ELSE @]
    /\ pc' = [pc EXCEPT ![p] = "returned"]

\* lines 205-219: sendFromOneAddress up to its first await
SendBegin(p, method, args, nad, log) ==
    /\ sendArgs' = [sendArgs EXCEPT ![p] = args]
    /\ IF ~ValidKey(args.privateKey)
       THEN /\ Settle(p, method, Thrown("ECPair.fromPrivateKey"), nad)
            /\ trace' = [trace EXCEPT ![p] = log]
            /\ UNCHANGED <<sendLocals, tx>>
       ELSE LET outputs == getOutputs(args.paymentData)
                satoshisToSend == getSatoshisToSend(outputs, args.fee)
            IN  /\ sendLocals' = [sendLocals EXCEPT
                        ![p] = [NoLocals EXCEPT !.stage = "started", !.outputs = outputs,
                                                !.satoshisToSend = satoshisToSend]]
                /\ tx' = [tx EXCEPT ![p] = EmptyTx]
                /\ trace' = [trace EXCEPT
                        ![p] = Append(log, [call |-> "api.get", route |-> "UNSPENT_OUTPUTS",
                                            address |-> args.fromAddress])]
                /\ pc' = [pc EXCEPT ![p] = "utxo"]
                /\ UNCHANGED <<sendResult, refreshResult>>

\* line 205: sendFromOneAddress invoked with these arguments
SendFromOneAddressCalled(p, privateKey, paymentData, fee) ==
    /\ pc[p] = "idle"
    /\ LET args == [kind |-> "args", fromAddress |-> addressParam[p].address,
                    privateKey |-> privateKey, paymentData |-> paymentData, fee |-> fee]
       IN  SendBegin(p, "sendFromOneAddress", args, None,
                     <<[call |-> "sendFromOneAddress"]>>)
    /\ op' = [op EXCEPT ![p] = "sendFromOneAddress"]
    /\ UNCHANGED <<wallet, addressParam, details, newAddressData>>

\* the caller invokes sendFromOneAddress itself
CallSendFromOneAddress(p) ==
    \E privateKey \in {addressParam[p].private_key, MALFORMED_KEY},
       paymentData \in PaymentLists, fee \in Fees :
       SendFromOneAddressCalled(p, privateKey, paymentData, fee)

\* lines 101-102 and 139-141: refreshAddress up to the await of api.get
CallRefreshAddress(p) ==
    /\ pc[p] = "idle"
    /\ wallet[p].address_index < MaxIndex
    /\ op' = [op EXCEPT ![p] = "refreshAddress"]
    /\ pc' = [pc EXCEPT ![p] = "balance"]
    /\ trace' = [trace EXCEPT
            ![p] = <<[call |-> "api.get", route |-> "FULL_ADDRESS",
                      address |-> addressParam[p].address]>>]
    /\ UNCHANGED <<wallet, addressParam, details, newAddressData, sendArgs, sendLocals,
                   tx, sendResult, refreshResult>>

\* lines 141-153 and 102-132: the address request answers
AddressDetailsArrive(p, res) ==
    /\ pc[p] = "balance"
    /\ IF ~res.ok
       THEN \* api.get throws and nothing catches it
            /\ refreshResult' = [refreshResult EXCEPT ![p] = Thrown("api.get")]
            /\ pc' = [pc EXCEPT ![p] = "returned"]
            /\ trace' = [trace EXCEPT ![p] = Append(@, Response("FULL_ADDRESS", res))]
            /\ UNCHANGED <<details, newAddressData, sendArgs, sendLocals, tx, sendResult>>
       ELSE LET balance == res.balance
            IN  /\ details' = [details EXCEPT ![p] = [kind |-> "details", balance |-> balance]]
                /\ IF BelowSweepThreshold(balance)
                   THEN /\ refreshResult' = [refreshResult EXCEPT
                                ![p] = SameAddress(wallet[p], addressParam[p])]
                        /\ pc' = [pc EXCEPT ![p] = "returned"]
                        /\ trace' = [trace EXCEPT ![p] = Append(@, Response("FULL_ADDRESS", res))]
                        /\ UNCHANGED <<newAddressData, sendArgs, sendLocals, tx, sendResult>>
                   ELSE LET nad == generateAddressFromSeed(wallet[p].seed, ACCOUNT_BASE, EXTERNAL,
                                                           wallet[p].address_index)
                            log == trace[p] \o <<Response("FULL_ADDRESS", res),
                                                 [call |-> "generateAddressFromSeed",
                                                  index |-> nad.index]>>
                        IN  /\ newAddressData' = [newAddressData EXCEPT ![p] = nad]
                            /\ IF SweepNeeded(balance)
                               THEN SendBegin(p, "refreshAddress",
                                              SweepArgs(addressParam[p], nad, balance), nad,
                                              Append(log, [call |-> "sendFromOneAddress"]))
                               ELSE /\ refreshResult' = [refreshResult EXCEPT ![p] = NewAddress(nad)]
                                    /\ pc' = [pc EXCEPT ![p] = "returned"]
                                    /\ trace' = [trace EXCEPT ![p] = log]
                                    /\ UNCHANGED <<sendArgs, sendLocals, tx, sendResult>>
    /\ UNCHANGED <<op, wallet, addressParam>>

\* lines 219-260: the unspent-outputs request answers
UnspentOutputsArrive(p, res) ==
    /\ pc[p] = "utxo"
    /\ IF UnspentFetchFailed(res)
       THEN /\ Settle(p, op[p], asErrorObject(API_ERROR), newAddressData[p])
            /\ trace' = [trace EXCEPT ![p] = Append(@, Response("UNSPENT_OUTPUTS", res))]
            /\ UNCHANGED <<sendLocals, tx>>
       ELSE LET unspentOutputs == res.data
                selected == getInputs(unspentOutputs, sendLocals[p].satoshisToSend)
                inputs == selected.inputs
                remainingSatoshis == selected.remainingSatoshis
                fetched == [sendLocals[p] EXCEPT !.stage = "selected",
                                !.unspentOutputs = unspentOutputs, !.inputs = inputs,
                                !.remainingSatoshis = remainingSatoshis]
                log == trace[p] \o <<Response("UNSPENT_OUTPUTS", res), [call |-> "getInputs"]>>
            IN  IF InsufficientBalance(remainingSatoshis)
                THEN /\ Settle(p, op[p], asErrorObject(INSUFFICIENT_FUNDS), newAddressData[p])
                     /\ sendLocals' = [sendLocals EXCEPT ![p] = fetched]
                     /\ trace' = [trace EXCEPT ![p] = log]
                     /\ UNCHANGED tx
                ELSE LET outputs == WithChange(sendLocals[p].outputs, sendArgs[p].fromAddress,
                                               remainingSatoshis)
                         keyPair == ECPair(sendArgs[p].privateKey)
                         draft == Draft(inputs, outputs, keyPair)
                         built == log \o DraftTrace(inputs, outputs, keyPair)
                     IN  /\ sendLocals' = [sendLocals EXCEPT ![p] = [fetched EXCEPT !.outputs = outputs]]
                         /\ tx' = [tx EXCEPT ![p] = draft]
                         /\ IF Buildable(draft)
                            THEN /\ trace' = [trace EXCEPT
                                        ![p] = Append(built, [call |-> "api.post", route |-> "SEND_TX",
                                                              rawtx |-> toHex(draft)])]
                                 /\ pc' = [pc EXCEPT ![p] = "post"]
                                 /\ UNCHANGED <<sendResult, refreshResult>>
                            ELSE /\ Settle(p, op[p], Thrown("tx.build"), newAddressData[p])
                                 /\ trace' = [trace EXCEPT ![p] = built]
    /\ UNCHANGED <<op, wallet, addressParam, details, newAddressData, sendArgs>>

SendTxArrives_retry(p, res) ==
    /\ pc[p] = "post"
    /\ IF SendTxFailed(res)
       THEN /\ trace' = [trace EXCEPT
                    ![p] = @ \o <<Response("SEND_TX", res),
                                  [call |-> "api.post", route |-> "SEND_TX",
                                   rawtx |-> toHex(tx[p])]>>]
            /\ UNCHANGED <<pc, sendResult, refreshResult>>
       ELSE /\ Settle(p, op[p], BroadcastResult(res), newAddressData[p])
            /\ trace' = [trace EXCEPT ![p] = Append(@, Response("SEND_TX", res))]
    /\ UNCHANGED <<op, wallet, addressParam, details, newAddressData, sendArgs, sendLocals, tx>>

\* lines 260-275, and lines 125-131 when refreshAddress awaits the call
SendTxArrives(p, res) ==
    /\ pc[p] = "post"
    /\ Settle(p, op[p],
              IF SendTxFailed(res) THEN asErrorObject(API_ERROR) ELSE BroadcastResult(res),
              newAddressData[p])
    /\ trace' = [trace EXCEPT ![p] = Append(@, Response("SEND_TX", res))]
    /\ UNCHANGED <<op, wallet, addressParam, details, newAddressData, sendArgs, sendLocals, tx>>

\* the caller takes the settled result; it stores a returned address record as
\* the wallet's current address and index
CallerTakesResult(p) ==
    /\ pc[p] = "returned"
    /\ IF op[p] = "refreshAddress" /\ refreshResult[p].kind = "address"
       THEN /\ wallet' = [wallet EXCEPT ![p].address_index = refreshResult[p].index]
            /\ addressParam' = [addressParam EXCEPT
                    ![p] = [address |-> refreshResult[p].address,
                            private_key |-> refreshResult[p].privateKey]]
       ELSE UNCHANGED <<wallet, addressParam>>
    /\ pc' = [pc EXCEPT ![p] = "idle"]
    /\ op' = [op EXCEPT ![p] = "none"]
    /\ details' = [details EXCEPT ![p] = None]
    /\ newAddressData' = [newAddressData EXCEPT ![p] = None]
    /\ sendArgs' = [sendArgs EXCEPT ![p] = None]
    /\ sendLocals' = [sendLocals EXCEPT ![p] = NoLocals]
    /\ tx' = [tx EXCEPT ![p] = EmptyTx]
    /\ sendResult' = [sendResult EXCEPT ![p] = None]
    /\ refreshResult' = [refreshResult EXCEPT ![p] = None]
    /\ trace' = [trace EXCEPT ![p] = << >>]

----------------------------------------------------------------------------
(* fetchAddressDetails called by itself, and formatTransactionResponse *)

Null == <<"null">>

SenderAddress == <<"addr", "sender">>

OtherAddress == <<"addr", "other">>

getTimestamp(received) == <<"timestamp", received>>

Contains(addresses, address) == \E i \in DOMAIN addresses : addresses[i] = address

\* confirmations: a missing field defaults to null (line 170); null and 0 are falsy
Confirmations == {[present |-> FALSE, n |-> 0], [present |-> TRUE, n |-> 0],
                  [present |-> TRUE, n |-> 3]}

\* line 180
Truthy(confirmations) == confirmations.present /\ confirmations.n # 0

\* outputs of a transaction: output i is worth i satoshis and pays either
\* another address or another address and the queried one
TxOutputLists(address) ==
    UNION {{[i \in 1 .. n |-> [addresses |-> f[i], value |-> i]] :
               f \in [1 .. n -> {<<OtherAddress>>, <<OtherAddress, address>>}]} :
           n \in 0 .. MaxTxOutputs}

TxInputLists ==
    {[i \in 1 .. n |-> [addresses |-> IF i = 1 THEN <<SenderAddress, OtherAddress>>
                                               ELSE <<OtherAddress>>]] :
        n \in {1, MaxTxInputs}}

Txs(address) ==
    {[confirmations |-> c, fees |-> 1, hash |-> 0, inputs |-> ins, outputs |-> outs,
      received |-> 0] :
        c \in Confirmations, ins \in TxInputLists, outs \in TxOutputLists(address)}

\* the history the provider returns: no transaction, one, or two
TxLists(address) ==
    UNION {{[i \in 1 .. n |-> [f[i] EXCEPT !.hash = i, !.received = 10 + i]] :
               f \in [1 .. n -> Txs(address)]} : n \in {0, 1, 2}}

DetailsReplies(address) ==
    {[ok |-> FALSE, balance |-> 0, txs |-> << >>]}
    \cup {[ok |-> TRUE, balance |-> MaxBalance, txs |-> l] : l \in TxLists(address)}

OutputsToAddress_firstOnly(outputs, address, found) ==
    IF outputs # << >> /\ Contains(Head(outputs).addresses, address)
    THEN [amount |-> Head(outputs).value, receiver_address |-> address]
    ELSE found

\* lines 184-189: outputs.forEach, from the amount and receiver found so far
RECURSIVE OutputsToAddress(_, _, _)
OutputsToAddress(outputs, address, found) ==
    IF outputs = << >> THEN found
    ELSE OutputsToAddress(Tail(outputs), address,
            IF Contains(Head(outputs).addresses, address)
            THEN [amount |-> found.amount + Head(outputs).value, receiver_address |-> address]
            ELSE found)

\* lines 165-199: one transaction
formatTransaction(transaction, address) ==
    LET sender_address == transaction.inputs[1].addresses[1]
        status == IF Truthy(transaction.confirmations) THEN 1 ELSE 0
        paid == OutputsToAddress(transaction.outputs, address,
                                 [amount |-> 0, receiver_address |-> Null])
    IN  [amount |-> satoshiToFloat(paid.amount),
         created_date |-> getTimestamp(transaction.received),
         fee |-> transaction.fees,
         receiver_address |-> paid.receiver_address,
         sender_address |-> sender_address,
         status |-> status,
         transaction_id |-> transaction.hash]

\* lines 161-203: transactions.forEach, one push per transaction
formatTransactionResponse(transactions, address) ==
    [i \in 1 .. Len(transactions) |-> formatTransaction(transactions[i], address)]

\* lines 139-141: fetchAddressDetails up to the await of api.get
CallFetchAddressDetails(p) ==
    /\ pc[p] = "idle"
    /\ op' = [op EXCEPT ![p] = "fetchAddressDetails"]
    /\ pc' = [pc EXCEPT ![p] = "history"]
    /\ trace' = [trace EXCEPT
            ![p] = <<[call |-> "api.get", route |-> "FULL_ADDRESS",
                      address |-> addressParam[p].address]>>]
    /\ UNCHANGED <<wallet, addressParam, details, newAddressData, sendArgs, sendLocals,
                   tx, sendResult, refreshResult>>

\* lines 141-153: the address request answers
AddressHistoryArrives(p, res) ==
    /\ pc[p] = "history"
    /\ details' = [details EXCEPT
            ![p] = IF ~res.ok
                   THEN Thrown("api.get")
                   ELSE [kind |-> "details", balance |-> res.balance, txs |-> res.txs,
                         transactions |-> formatTransactionResponse(res.txs,
                                                                    addressParam[p].address)]]
    /\ pc' = [pc EXCEPT ![p] = "returned"]
    /\ trace' = [trace EXCEPT ![p] = Append(@, Response("FULL_ADDRESS", res))]
    /\ UNCHANGED <<op, wallet, addressParam, newAddressData, sendArgs, sendLocals, tx,
                   sendResult, refreshResult>>

NextDetails ==
    \E p \in Calls :
        \/ CallFetchAddressDetails(p)
        \/ /\ pc[p] = "history"
           /\ \E res \in DetailsReplies(addressParam[p].address) :
                  AddressHistoryArrives(p, res)
        \/ CallerTakesResult(p)

SpecDetails == Init /\ [][NextDetails]_vars

----------------------------------------------------------------------------
(* Several calls in flight on the one BitcoinBlockchainManager.instance *)

\* every call is ready; the calls all work on the first wallet, or each on a
\* wallet of its own
InitConcurrent ==
    /\ pc = [p \in Calls |-> "idle"]
    /\ op = [p \in Calls |-> "none"]
    /\ \E owner \in {[p \in Calls |-> 1], [p \in Calls |-> p]} :
          /\ wallet = [p \in Calls |-> [seed |-> Seed(owner[p]), address_index |-> 1]]
          /\ addressParam = [p \in Calls |-> AddressAt(owner[p], 1)]
    /\ details = [p \in Calls |-> None]
    /\ newAddressData = [p \in Calls |-> None]
    /\ sendArgs = [p \in Calls |-> None]
    /\ sendLocals = [p \in Calls |-> NoLocals]
    /\ tx = [p \in Calls |-> EmptyTx]
    /\ sendResult = [p \in Calls |-> None]
    /\ refreshResult = [p \in Calls |-> None]
    /\ trace = [p \in Calls |-> << >>]

\* the provider answers that tell the paths of a call apart
FewBalanceReplies ==
    {r \in BalanceReplies : ~r.ok \/ r.balance \in {0, DEFAULT_FEE, DEFAULT_FEE + 1}}

FewUnspentReplies ==
    {r \in UnspentReplies :
        \/ ~r.ok
        \/ /\ Len(r.data) \in {1, 2}
           /\ r.data[1].value = 1
           /\ Len(r.data) = 2 => r.data[2].value = DEFAULT_FEE + 1
        \/ Len(r.data) = 1 /\ r.data[1].value = DEFAULT_FEE + 1}

FewSendTxReplies == {r \in SendTxReplies : ~r.ok \/ r.txid = "txid"}

NextConcurrent ==
    \E p \in Calls :
        \/ SendFromOneAddressCalled(p, addressParam[p].private_key,
                                    <<[address |-> <<"dest", 1>>, amount |-> satoshiToFloat(1)]>>,
                                    DEFAULT_FEE)
        \/ CallRefreshAddress(p)
        \/ \E res \in FewBalanceReplies : AddressDetailsArrive(p, res)
        \/ \E res \in FewUnspentReplies : UnspentOutputsArrive(p, res)
        \/ \E res \in FewSendTxReplies : SendTxArrives(p, res)

SpecConcurrent == InitConcurrent /\ [][NextConcurrent]_vars

Next ==
    \E p \in Calls :
        \/ CallRefreshAddress(p)
        \/ CallSendFromOneAddress(p)
        \/ \E res \in BalanceReplies : AddressDetailsArrive(p, res)
        \/ \E res \in UnspentReplies : UnspentOutputsArrive(p, res)
        \/ \E res \in SendTxReplies : SendTxArrives(p, res)
        \/ CallerTakesResult(p)

Spec == Init /\ [][Next]_vars

----------------------------------------------------------------------------
(* Reading a call's trace *)

Made(p, name) == CountCalls(trace[p], name)

Requested(p, route) == CountRoute(trace[p], route)

Responses(p, route) ==
    {i \in DOMAIN trace[p] : trace[p][i].call = "response" /\ trace[p][i].route = route}

FailedResponse(p, route) == \E i \in Responses(p, route) : ~trace[p][i].ok

\* nothing of the transaction pipeline has run past the unspent-outputs request
NothingBuilt(p) ==
    /\ tx[p] = EmptyTx
    /\ NoCall(trace[p], "tx.addInput")
    /\ NoCall(trace[p], "tx.sign")
    /\ NoCall(trace[p], "tx.build")
    /\ NoCall(trace[p], "api.post")

\* the satoshis the payments of the call ask for, and its spend target
PaymentTotal(p) ==
    LET RECURSIVE Total(_)
        Total(pd) == IF pd = << >> THEN 0 ELSE floatToSatoshi(Head(pd).amount) + Total(Tail(pd))
    IN  Total(sendArgs[p].paymentData)

SpendTarget(p) == PaymentTotal(p) + sendArgs[p].fee

----------------------------------------------------------------------------
(* Claims *)

\* C1 (as claimed): when the sweep that refreshAddress started ends in a
\* failure (API_ERROR, INSUFFICIENT_FUNDS or BROADCAST_ERROR), refreshAddress
\* returns that failure and returns no address record.
C1_RotateAllOrNothing ==
    \A p \in Calls :
        (pc[p] = "returned" /\ op[p] = "refreshAddress" /\ sendResult[p].kind = "error")
            => (refreshResult[p] = sendResult[p] /\ refreshResult[p].kind # "address")

\* C2: when the fetched unspent outputs sum to less than the payments plus the
\* fee, sendFromOneAddress returns INSUFFICIENT_FUNDS, and that run adds no
\* input to the draft, signs nothing and never posts.
C2_InsufficientFunds ==
    \A p \in Calls :
        (sendLocals[p].stage = "selected"
            /\ SumValues(sendLocals[p].unspentOutputs) < SpendTarget(p))
            => /\ pc[p] = "returned"
               /\ sendResult[p] = asErrorObject(INSUFFICIENT_FUNDS)
               /\ NothingBuilt(p)

\* C2 witness: a run with a non-empty unspent list that is one satoshi short
C2_Witness ==
    \E p \in Calls :
        /\ sendLocals[p].stage = "selected"
        /\ sendLocals[p].unspentOutputs # << >>
        /\ SumValues(sendLocals[p].unspentOutputs) = SpendTarget(p) - 1
        /\ sendResult[p] = asErrorObject(INSUFFICIENT_FUNDS)

\* C3: when the unspent-outputs request fails, sendFromOneAddress returns
\* API_ERROR and the run ends there: no input selection, no signing, no
\* broadcast, no signed transaction.
C3_UtxoFetchFailureAborts ==
    \A p \in Calls :
        FailedResponse(p, "UNSPENT_OUTPUTS")
            => /\ pc[p] = "returned"
               /\ sendResult[p] = asErrorObject(API_ERROR)
               /\ sendLocals[p].stage = "started"
               /\ Made(p, "getInputs") = 0
               /\ NothingBuilt(p)

\* C3 witness: a direct call whose unspent-outputs request failed
C3_Witness ==
    \E p \in Calls :
        /\ op[p] = "sendFromOneAddress"
        /\ FailedResponse(p, "UNSPENT_OUTPUTS")
        /\ sendResult[p] = asErrorObject(API_ERROR)

\* C4 (as claimed): a broadcast answered with a success status but without a
\* transaction id yields BROADCAST_ERROR, never a success result.
C4_SuccessNeedsTxid ==
    \A p \in Calls :
        \A i \in Responses(p, "SEND_TX") :
            (trace[p][i].ok /\ trace[p][i].res.txid = "undefined")
                => sendResult[p] = asErrorObject(BROADCAST_ERROR)

\* C5: for a fetched balance b with 0 < b <= DEFAULT_FEE, refreshAddress
\* returns the address and private key it was given with the wallet's index,
\* derives no address and makes no unspent-outputs request, signature or post.
C5_BelowThresholdKeepsAddress ==
    \A p \in Calls :
        (op[p] = "refreshAddress" /\ details[p].kind = "details"
            /\ 0 < details[p].balance /\ details[p].balance <= DEFAULT_FEE)
            => /\ pc[p] = "returned"
               /\ refreshResult[p] = [kind |-> "address",
                                      address |-> addressParam[p].address,
                                      privateKey |-> addressParam[p].private_key,
                                      index |-> wallet[p].address_index]
               /\ newAddressData[p] = None
               /\ Made(p, "generateAddressFromSeed") = 0
               /\ Made(p, "sendFromOneAddress") = 0
               /\ Requested(p, "UNSPENT_OUTPUTS") = 0
               /\ NothingBuilt(p)

\* C5 witness: the balance equals the default fee exactly
C5_Witness ==
    \E p \in Calls :
        /\ op[p] = "refreshAddress"
        /\ details[p].kind = "details"
        /\ details[p].balance = DEFAULT_FEE
        /\ refreshResult[p].kind = "address"

\* C6: a refreshAddress whose fetched balance is 0 never calls
\* sendFromOneAddress (no unspent-outputs request, no post) and returns the
\* newly derived record, at index wallet.address_index + 1, whose address
\* differs from the address it was given.
C6_ZeroBalanceRotatesOffChain ==
    \A p \in Calls :
        (op[p] = "refreshAddress" /\ details[p].kind = "details" /\ details[p].balance = 0)
            => /\ pc[p] = "returned"
               /\ Made(p, "sendFromOneAddress") = 0
               /\ Requested(p, "UNSPENT_OUTPUTS") = 0
               /\ NothingBuilt(p)
               /\ Made(p, "generateAddressFromSeed") = 1
               /\ refreshResult[p] =
                     NewAddress(generateAddressFromSeed(wallet[p].seed, ACCOUNT_BASE, EXTERNAL,
                                                        wallet[p].address_index))
               /\ refreshResult[p].index = wallet[p].address_index + 1
               /\ refreshResult[p].address # addressParam[p].address

\* C6 witness: a zero-balance rotation that returned
C6_Witness ==
    \E p \in Calls :
        /\ op[p] = "refreshAddress"
        /\ details[p].kind = "details"
        /\ details[p].balance = 0
        /\ refreshResult[p].kind = "address"

C8_FirstFitPrefix ==
    \A p \in Calls :
        sendLocals[p].stage = "selected"
            => LET U == sendLocals[p].unspentOutputs
                   T == sendLocals[p].satoshisToSend
                   k == Len(sendLocals[p].inputs)
                   Prefix(n) == SubSeq(U, 1, n)
               IN  /\ k <= Len(U)
                   /\ sendLocals[p].inputs = Prefix(k)
                   /\ SumValues(Prefix(k)) >= T \/ k = Len(U)
                   /\ \A j \in 0 .. k - 1 : SumValues(Prefix(j)) < T
                   /\ sendLocals[p].remainingSatoshis = SumValues(sendLocals[p].inputs) - T
                   /\ SumValues(U) >= T => sendLocals[p].remainingSatoshis >= 0
                   /\ SumValues(U) < T => sendLocals[p].remainingSatoshis < 0

\* C8 witness: the first output alone covers the target and a second one is
\* left unselected
C8_Witness ==
    \E p \in Calls :
        /\ sendLocals[p].stage = "selected"
        /\ Len(sendLocals[p].unspentOutputs) = 2
        /\ Len(sendLocals[p].inputs) = 1
        /\ sendLocals[p].unspentOutputs[2].value > 0
        /\ sendLocals[p].remainingSatoshis > 0

\* C9: once the inputs cover the target, the outputs of the transaction are
\* the payments in order, followed by one change output paying fromAddress
\* exactly remainingSatoshis if and only if remainingSatoshis > DUST_THRESHOLD;
\* a remainder of 0..DUST_THRESHOLD adds no output and raises no error: the
\* run goes on to add outputs, sign and build.
C9_ChangeAboveDust ==
    \A p \in Calls :
        (sendLocals[p].stage = "selected" /\ sendLocals[p].remainingSatoshis >= 0)
            => LET r == sendLocals[p].remainingSatoshis
                   paid == [i \in 1 .. Len(sendArgs[p].paymentData) |->
                               [address |-> sendArgs[p].paymentData[i].address,
                                satoshis |-> floatToSatoshi(sendArgs[p].paymentData[i].amount)]]
                   change == [address |-> sendArgs[p].fromAddress, satoshis |-> r]
               IN  /\ r > DUST_THRESHOLD => tx[p].outs = Append(paid, change)
                   /\ r <= DUST_THRESHOLD => tx[p].outs = paid
                   /\ Made(p, "tx.addOutput") = Len(tx[p].outs)
                   /\ Made(p, "tx.build") = 1
                   /\ sendResult[p] # asErrorObject(INSUFFICIENT_FUNDS)

\* C9 witness: a remainder equal to the dust threshold, broadcast with no
\* change output
C9_Witness ==
    \E p \in Calls :
        /\ sendLocals[p].stage = "selected"
        /\ sendLocals[p].remainingSatoshis = DUST_THRESHOLD
        /\ DUST_THRESHOLD > 0
        /\ Len(tx[p].outs) = Len(sendArgs[p].paymentData)
        /\ sendResult[p].kind = "sent"

\* C10 (as claimed): a provider request that fails makes the operation that
\* issued it return the typed API_ERROR result: fetchAddressDetails (and so
\* refreshAddress, with no address derived and nothing posted),
\* the unspent-outputs fetch and the broadcast alike.
C10_ProviderErrorIsTyped ==
    \A p \in Calls :
        /\ FailedResponse(p, "FULL_ADDRESS")
              => /\ refreshResult[p] = asErrorObject(API_ERROR)
                 /\ Made(p, "generateAddressFromSeed") = 0
                 /\ Requested(p, "SEND_TX") = 0
        /\ FailedResponse(p, "UNSPENT_OUTPUTS") => sendResult[p] = asErrorObject(API_ERROR)
        /\ FailedResponse(p, "SEND_TX") => sendResult[p] = asErrorObject(API_ERROR)


\* C11: generateAddressFromSeed called with numberOfAddresses = n derives and
\* returns index n + 1 (index 1 for n = 0, never index 0); and as the caller
\* stores each returned index as the wallet's address index, that index never
\* decreases and grows by exactly one whenever a newly derived address is
\* stored.
C11_IndexGrowsByOne ==
    [][\A p \in Calls :
          /\ \A n \in 0 .. wallet[p].address_index :
                LET derived == generateAddressFromSeed(wallet[p].seed, ACCOUNT_BASE, EXTERNAL, n)
                IN  derived.index = n + 1 /\ derived.index # 0
          /\ newAddressData'[p].kind = "address"
                => newAddressData'[p].index = wallet[p].address_index + 1
          /\ wallet'[p].address_index >= wallet[p].address_index
          /\ addressParam'[p] # addressParam[p]
                => /\ wallet'[p].address_index = wallet[p].address_index + 1
                   /\ addressParam'[p].address
                         = <<"addr", wallet[p].seed, ACCOUNT_BASE, EXTERNAL,
                             wallet[p].address_index + 1>>]_vars

\* C11 witness: a wallet rotated up to the last index the caller asks for, its
\* current address the one derived at that index
C11_Witness ==
    \E p \in Calls :
        /\ pc[p] = "idle"
        /\ MaxIndex > 2
        /\ wallet[p].address_index = MaxIndex
        /\ addressParam[p].address = <<"addr", wallet[p].seed, ACCOUNT_BASE, EXTERNAL, MaxIndex>>

\* C12: no retries. One sendFromOneAddress call makes at most one
\* unspent-outputs request and at most one post, the posted transaction being
\* the draft as signed; one refreshAddress call makes at most one address
\* request and at most one sendFromOneAddress call.
C12_NoRetries ==
    \A p \in Calls :
        /\ Requested(p, "FULL_ADDRESS") <= 1
        /\ Made(p, "sendFromOneAddress") <= 1
        /\ Requested(p, "UNSPENT_OUTPUTS") <= 1
        /\ Requested(p, "SEND_TX") <= 1
        /\ Cardinality(Responses(p, "SEND_TX")) <= 1
        /\ \A i \in DOMAIN trace[p] :
              trace[p][i].call = "api.post" => trace[p][i].rawtx = toHex(tx[p])
        /\ (op[p] = "sendFromOneAddress" /\ pc[p] # "idle") => Requested(p, "FULL_ADDRESS") = 0

\* C12 witness: a sweep whose broadcast failed, returned after one request of
\* each kind
C12_Witness ==
    \E p \in Calls :
        /\ op[p] = "refreshAddress"
        /\ pc[p] = "returned"
        /\ FailedResponse(p, "SEND_TX")
        /\ Requested(p, "FULL_ADDRESS") = 1
        /\ Requested(p, "UNSPENT_OUTPUTS") = 1
        /\ Requested(p, "SEND_TX") = 1


\* the values of the outputs of a transaction that pay `address`
PaidTo(transaction, address) ==
    LET paying == {i \in DOMAIN transaction.outputs :
                      \E j \in DOMAIN transaction.outputs[i].addresses :
                          transaction.outputs[i].addresses[j] = address}
        RECURSIVE Total(_)
        Total(S) == IF S = {} THEN 0
                    ELSE LET i == CHOOSE x \in S : TRUE
                         IN  transaction.outputs[i].value + Total(S \ {i})
    IN  [count |-> Cardinality(paying), total |-> Total(paying)]

At(p, name) == {i \in DOMAIN trace[p] : trace[p][i].call = name}

\* position in call p's log of the answer to the unspent-outputs request
UnspentAnswerAt(p) ==
    {i \in At(p, "response") : trace[p][i].route = "UNSPENT_OUTPUTS"}

\* the sub-sequence of call p's log made of the calls named `name`
Only(p, name) == SelectSeq(trace[p], LAMBDA e : e.call = name)

\* C14: a build is a strictly ordered pipeline: inputs are selected only
\* after the unspent-outputs request has answered, every selected input and
\* every output is added to the draft before the first signature, input i is
\* signed exactly once, in the order 0..n-1, with the one key pair made from
\* the supplied private key, and the broadcast request is issued only after
\* all n inputs are signed.
C14_OrderedPipeline ==
    \A p \in Calls :
        LET selects == At(p, "getInputs")
            addIns == At(p, "tx.addInput")
            addOuts == At(p, "tx.addOutput")
            signs == Only(p, "tx.sign")
            posts == At(p, "api.post")
        IN  /\ \A i \in selects : \E a \in UnspentAnswerAt(p) : a < i
            /\ \A j \in At(p, "tx.sign") :
                  /\ \A i \in selects \cup addIns \cup addOuts : i < j
                  /\ Cardinality(addIns) = Len(sendLocals[p].inputs)
                  /\ Cardinality(addOuts) = Len(sendLocals[p].outputs)
            /\ \A k \in DOMAIN signs :
                  /\ signs[k].vin = k - 1
                  /\ signs[k].keyPair = ECPair(sendArgs[p].privateKey)
            /\ (addIns # {} \/ addOuts # {})
                  => /\ sendLocals[p].stage = "selected"
                     /\ Len(signs) = Len(sendLocals[p].inputs)
                     /\ Only(p, "tx.addInput")
                           = [i \in 1 .. Len(sendLocals[p].inputs) |->
                                 [call |-> "tx.addInput", txid |-> sendLocals[p].inputs[i].txid,
                                  vout |-> sendLocals[p].inputs[i].vout]]
            /\ \A k \in posts :
                  /\ \A j \in At(p, "tx.sign") \cup At(p, "tx.build") : j < k
                  /\ Len(signs) = Len(sendLocals[p].inputs)
                  /\ Len(signs) > 0

\* C14 witness: a broadcast request in flight for a draft of two inputs and
\* two outputs
C14_Witness ==
    \E p \in Calls :
        /\ pc[p] = "post"
        /\ Len(tx[p].ins) = 2
        /\ Len(tx[p].outs) = 2
        /\ Len(Only(p, "tx.sign")) = 2


\* the answers call p's own requests on `route` resumed with, oldest first
Answers(p, route) ==
    SelectSeq(trace[p], LAMBDA e : e.call = "response" /\ e.route = route)

\* what call p holds is what its own arguments and its own answers make of
\* it, as in a run of that call alone
OwnWork(p) ==
    LET unspent == Answers(p, "UNSPENT_OUTPUTS")
        sent == Answers(p, "SEND_TX")
        args == sendArgs[p]
        destinations == [i \in 1 .. Len(args.paymentData) |->
                            [address |-> args.paymentData[i].address,
                             satoshis |-> floatToSatoshi(args.paymentData[i].amount)]]
        target == SumSatoshis(destinations) + args.fee
        mine == IF unspent # << >> /\ unspent[1].ok
                THEN getInputs(unspent[1].res.data, target)
                ELSE [inputs |-> << >>, remainingSatoshis |-> 0]
        change == IF mine.remainingSatoshis > DUST_THRESHOLD
                  THEN <<[address |-> args.fromAddress, satoshis |-> mine.remainingSatoshis]>>
                  ELSE << >>
    IN  /\ sendLocals[p].stage = "selected"
              => /\ Len(unspent) = 1 /\ unspent[1].ok
                 /\ sendLocals[p].unspentOutputs = unspent[1].res.data
                 /\ sendLocals[p].inputs = mine.inputs
                 /\ sendLocals[p].remainingSatoshis = mine.remainingSatoshis
        /\ tx[p] # EmptyTx
              => /\ sendLocals[p].stage = "selected"
                 /\ tx[p].ins = [i \in 1 .. Len(mine.inputs) |->
                                    [txid |-> mine.inputs[i].txid, vout |-> mine.inputs[i].vout]]
                 /\ tx[p].outs = destinations \o change
                 /\ Len(tx[p].sigs) = Len(mine.inputs)
        /\ (pc[p] = "returned" /\ sendResult[p].kind # "none")
              => sendResult[p]
                    = (IF ~ValidKey(args.privateKey) THEN Thrown("ECPair.fromPrivateKey")
                       ELSE IF ~unspent[1].ok THEN asErrorObject(API_ERROR)
                       ELSE IF mine.remainingSatoshis < 0 THEN asErrorObject(INSUFFICIENT_FUNDS)
                       ELSE IF mine.inputs = << >> \/ destinations \o change = << >>
                            THEN Thrown("tx.build")
                       ELSE IF ~sent[1].ok THEN asErrorObject(API_ERROR)
                       ELSE IF sent[1].res.status = 200
                            THEN [kind |-> "sent", error |-> FALSE,
                                  link |-> VIEW_TX(sent[1].res.txid)]
                       ELSE asErrorObject(BROADCAST_ERROR))

\* what the model keeps for call q
StateOf(q) ==
    <<pc[q], op[q], wallet[q], addressParam[q], details[q], newAddressData[q], sendArgs[q],
      sendLocals[q], tx[q], sendResult[q], refreshResult[q], trace[q]>>

\* C15: concurrent calls are isolated: whatever the interleaving of their
\* steps at the awaits, a step of one call changes nothing another call
\* holds, and each call's fetched UTXO set, selected inputs, draft and result
\* are those its own arguments and its own provider answers give, as in a run
\* of that call alone; no UTXO set or draft is shared.
C15_CallsAreIsolated ==
    [][\A p \in Calls :
          StateOf(p)' # StateOf(p)
              => /\ \A q \in Calls \ {p} : StateOf(q)' = StateOf(q)
                 /\ OwnWork(p)']_vars

\* C15 witness: two calls with a broadcast in flight at the same time, from
\* different UTXO answers, one a sweep and one a direct send
C15_Witness ==
    \E p, q \in Calls :
        /\ p # q
        /\ pc[p] = "post" /\ pc[q] = "post"
        /\ op[p] = "refreshAddress" /\ op[q] = "sendFromOneAddress"
        /\ sendLocals[p].unspentOutputs # sendLocals[q].unspentOutputs
        /\ tx[p] # tx[q]

\* calls p and q race: both spend from the same address, both got the same
\* UTXO set and both selected the same first UTXO
Racing(p, q) ==
    /\ p # q
    /\ sendArgs[p].kind = "args" /\ sendArgs[q].kind = "args"
    /\ sendArgs[p].fromAddress = sendArgs[q].fromAddress
    /\ sendLocals[p].stage = "selected" /\ sendLocals[q].stage = "selected"
    /\ sendLocals[p].unspentOutputs = sendLocals[q].unspentOutputs
    /\ sendLocals[p].inputs # << >> /\ sendLocals[q].inputs # << >>
    /\ sendLocals[p].inputs[1] = sendLocals[q].inputs[1]
    /\ sendLocals[p].remainingSatoshis >= 0 /\ sendLocals[q].remainingSatoshis >= 0

\* C16: the same-address race is not prevented locally: of two racing calls
\* neither is stopped before its broadcast, each has its broadcast request
\* issued with the shared UTXO as an input, and how each ends is decided by the
\* provider's answer to its broadcast alone.
C16_RaceLeftToProvider ==
    \A p, q \in Calls :
        Racing(p, q)
            => /\ pc[p] \in {"post", "returned"}
               /\ Requested(p, "SEND_TX") = 1
               /\ tx[p].ins[1] = tx[q].ins[1]
               /\ pc[p] = "returned"
                     => LET sent == Answers(p, "SEND_TX")
                        IN  /\ Len(sent) = 1
                            /\ sendResult[p]
                                  = (IF ~sent[1].ok THEN asErrorObject(API_ERROR)
                                     ELSE IF sent[1].res.status = 200
                                          THEN [kind |-> "sent", error |-> FALSE,
                                                link |-> VIEW_TX(sent[1].res.txid)]
                                     ELSE asErrorObject(BROADCAST_ERROR))

\* C16 witness: two racing direct sends, both with the broadcast in flight:
\* both fetched the same UTXO set before either broadcast was answered
C16_Witness ==
    \E p, q \in Calls :
        /\ Racing(p, q)
        /\ op[p] = "sendFromOneAddress" /\ op[q] = "sendFromOneAddress"
        /\ pc[p] = "post" /\ pc[q] = "post"
        /\ Answers(p, "SEND_TX") = << >> /\ Answers(q, "SEND_TX") = << >>
        /\ tx[p].ins = tx[q].ins


\* C17: every monetary value handed from one operation to the next in a
\* rotation (the payment amount refreshAddress gives sendFromOneAddress, the
\* spend target, the selected total, the change) is a whole number of
\* satoshis; nothing is converted to the decimal coin unit between the balance
\* fetch and the broadcast. Line 122 converts the payment amount.
C17_SatoshisBetweenOperations ==
    \A p \in Calls :
        (op[p] = "refreshAddress" /\ sendArgs[p].kind = "args")
            => /\ details[p].balance \in Nat
               /\ sendLocals[p].satoshisToSend \in Nat
               /\ sendLocals[p].remainingSatoshis \in Int
               /\ \A i \in DOMAIN sendLocals[p].outputs :
                     sendLocals[p].outputs[i].satoshis \in Nat
               /\ \A i \in DOMAIN sendArgs[p].paymentData :
                     sendArgs[p].paymentData[i].amount.unit # "BTC"


\* what the draft of call p leaves to the miners
EffectiveFee(p) == SumValues(sendLocals[p].inputs) - SumSatoshis(tx[p].outs)

\* the draft of call p ends with a change output
ChangePresent(p) == Len(tx[p].outs) > Len(sendArgs[p].paymentData)

\* C18: value conservation: in every build that reaches signing, the total of
\* the selected inputs minus the total of all outputs, change included, is at
\* least the requested fee and at most the fee plus the dust threshold, and
\* is exactly the fee whenever a change output is present.
C18_ValueConservation ==
    \A p \in Calls :
        tx[p].sigs # << >>
            => /\ EffectiveFee(p) >= sendArgs[p].fee
               /\ EffectiveFee(p) <= sendArgs[p].fee + DUST_THRESHOLD
               /\ ChangePresent(p) => EffectiveFee(p) = sendArgs[p].fee

\* C18 witness: a signed draft of two inputs with a change output, and a fee
C18_Witness ==
    \E p \in Calls :
        /\ Len(tx[p].sigs) = 2
        /\ ChangePresent(p)
        /\ sendArgs[p].fee > 0
        /\ EffectiveFee(p) = sendArgs[p].fee


\* call p is a rotation whose sweep has started
Sweeping(p) == op[p] = "refreshAddress" /\ sendLocals[p].stage # "none"

====
